---- MODULE Spec2Model ----
(***************************************************************************)
(* Model of the amusic-mobile playback stack:                              *)
(*   - AudioService (services/audio.service.ts), the playback adapter     *)
(*     wrapped around one HTMLAudioElement, the media session and the      *)
(*     screen wake lock;                                                   *)
(*   - PlayerProvider (context/PlayerContext.tsx), the player state        *)
(*     controller that republishes adapter callbacks as PlayerState.       *)
(* JavaScript is single threaded: a method runs to its first await, the    *)
(* continuation of an await is a microtask (FIFO queue mq), and platform   *)
(* events are tasks of the media element (FIFO queue audio.tasks) that    *)
(* run only when no microtask is pending.                                  *)
(***************************************************************************)
EXTENDS Integers, Sequences, FiniteSets, TLC

VARIABLES
    currentSong,   \* AudioService.currentSong
    metadata,      \* navigator.mediaSession.metadata (the song it describes)
    wakeLock,      \* AudioService.wakeLock is a sentinel (TRUE) or null (FALSE)
    wlPending,     \* wakeLock.request('screen') promises not yet settled
    wlHeld,        \* wake-lock sentinels the platform holds (granted, not released)
    audio,         \* the HTMLAudioElement, with its pending play promises and task queue
    mq,            \* microtask queue: continuations of awaits, in order
    calls,         \* the play(song) invocations made so far, in order
    ctl,           \* PlayerState held by PlayerProvider
    sync,          \* the running task is still in caller code (no microtask ran yet)
    ops,           \* number of API calls made so far
    lastOp,        \* the most recent API call
    errCalls,      \* onError invocations since the most recent play(song)
    \* the Cordova build of AudioService (native Media plugin)
    avail,            \* isCordovaMediaAvailable()
    media,            \* AudioService.media: 0 (null) or the id of a Media object
    mediaTimer,       \* the polling interval is set
    mediaCurrentTime,
    mediaDuration,
    mediaIsPlaying,
    objs,             \* the native Media objects, by the id of the play call creating them
    nq,               \* callbacks of the native plugin not yet delivered, in order
    volume,           \* audio.volume, in hundredths
    playbackRate,     \* audio.playbackRate, in hundredths
    objVolume,        \* volume of each native Media object, in hundredths
    subs,             \* on<Event>Callback fields: the subscriber of each event (0: null)
    regs,             \* history: the registrations made so far, in order
    invoked,          \* history: the last event delivered and the subscriber it invoked
    isIntentionallyPaused,  \* AudioService.isIntentionallyPaused (Capacitor build)
    hidden,           \* document.hidden
    visTimers,        \* pending timeouts of the 'visibilitychange' listener
    pauseTimers,      \* pending timeouts of the unexpected-pause listener
    pausedByUser,     \* history: pause() was called and neither resume() nor play() since
    ctxState,         \* audioContext.state
    ctxWait,          \* play calls awaiting audioContext.resume()
    searchQuery,      \* Home: the text of the search bar
    songs,            \* Home: the result list
    isLoading,        \* Home: a search is shown as running
    error,            \* Home: the search-failed message is shown
    searches,         \* the requests of searchSongs in flight: their queries
    searched,         \* history: every query searchSongs was called with
    lastHandled,      \* history: the query of the latest handleSearch call
    inFlight,         \* history: for each request in flight, the number of its call
    shownOf,          \* history: the call whose answer set the result list last (0: none)
    probes,           \* the calls of checkHealth: the outcome of the request and the value resolved
    opened,           \* history: the song the player screen was last opened for, and whether that started playSong
    show,             \* DebugConsole: the console is shown
    logs,             \* DebugConsole: the log buffer, each line by the number of its console call
    logCalls,         \* number of console calls made so far
    toggles           \* number of onToggle calls made so far

lockVars == <<wakeLock, wlPending, wlHeld>>
nativeVars == <<avail, media, mediaTimer, mediaCurrentTime, mediaDuration,
                mediaIsPlaying, objs, nq>>
\* everything the web build of AudioService never touches
nonWebVars == <<nativeVars>>

settingVars == <<volume, playbackRate, objVolume>>
\* what the playback operations and the platform's playback steps never touch
subscriberVars == <<subs, regs, invoked>>
capacitorVars == <<isIntentionallyPaused, hidden, visTimers, pauseTimers, pausedByUser,
                   ctxState, ctxWait>>
\* the search screen
homeVars == <<searchQuery, songs, isLoading, error, searches, searched, lastHandled,
              inFlight, shownOf>>
healthVars == <<probes>>
playerVars == <<opened>>
consoleVars == <<show, logs, logCalls, toggles>>
outsideVars == <<settingVars, subscriberVars, capacitorVars, homeVars, healthVars, playerVars, consoleVars>>
\* the state of playback: adapter, element, controller, native plugin
playbackVars == <<currentSong, metadata, wakeLock, wlPending, wlHeld, audio, mq, calls,
                  ctl, sync, ops, lastOp, errCalls, nativeVars>>
\* what the setters never touch, besides the state of playback
besidesSettings == <<subscriberVars, capacitorVars, homeVars, healthVars, playerVars, consoleVars>>
\* what registrations and their deliveries never touch
besidesSubscribers == <<playbackVars, settingVars, capacitorVars, homeVars, healthVars, playerVars, consoleVars>>
\* what the Capacitor build never touches, besides the Cordova fields
besidesCapacitor == <<lockVars, nativeVars, settingVars, subscriberVars, homeVars, healthVars, playerVars, consoleVars>>
\* what the search screen never touches
besidesHome == <<playbackVars, settingVars, subscriberVars, capacitorVars, healthVars, playerVars, consoleVars>>

\* what checkHealth never touches
besidesHealth == <<playbackVars, settingVars, subscriberVars, capacitorVars, homeVars, playerVars, consoleVars>>

\* what the player screen never touches, besides the state of playback
besidesPlayer == <<settingVars, subscriberVars, capacitorVars, homeVars, healthVars, consoleVars>>

\* what the debug console never touches
besidesConsole == <<playbackVars, settingVars, subscriberVars, capacitorVars, homeVars,
                   healthVars, playerVars>>

vars == <<currentSong, metadata, wakeLock, wlPending, wlHeld, audio, mq, calls,
          ctl, sync, ops, lastOp, errCalls, nativeVars, outsideVars>>

\* ------------------------------------------------------------------ bounds
MaxOps == 3        \* API calls per behaviour
MaxPlays == 2      \* of which calls of playSong
MaxTasks == 2      \* platform-initiated tasks are queued only below this length
MaxRegs == 3       \* registrations of subscribers per behaviour
MaxTimers == 1     \* pending timeouts of each auto-resume listener
MaxQuery == 2      \* characters of a search query
MaxSearches == 2   \* calls of searchSongs per behaviour

\* seek targets: the start, inside a stream, beyond the end of every stream
SeekTimes == {0, 1, 3}

\* the six events a subscriber can be registered for, and two subscribers
Events == {"play", "pause", "ended", "timeupdate", "loaded", "error"}
Subscribers == {1, 2}

Songs == {"A", "B"}
NoSong == "none"

\* Length in seconds of the stream the backend serves for a song.
Dur(s) == IF s = "A" THEN 1 ELSE 2

Min(a, b) == IF a < b THEN a ELSE b
Max(a, b) == IF a > b THEN a ELSE b

\* ------------------------------------------------------- HTMLAudioElement
Ev(e) == [ev |-> e, ids |-> {}, ok |-> TRUE, why |-> "-"]
Settle(ids, ok, why) == [ev |-> "settle", ids |-> ids, ok |-> ok, why |-> why]
Then(id, ok, why) == [k |-> "then", id |-> id, ok |-> ok, why |-> why]

\* the continuations of a set of settled play promises, in call order
RECURSIVE Thens(_, _, _)
Thens(ids, ok, why) ==
    IF ids = {} THEN <<>>
    ELSE LET i == CHOOSE x \in ids : \A y \in ids : x <= y
         IN <<Then(i, ok, why)>> \o Thens(ids \ {i}, ok, why)

\* "reject pending play promises": take the list and queue a task that rejects
RejectPending(a, why) ==
    IF a.pend = {} THEN a
    ELSE [a EXCEPT !.pend = {}, !.tasks = Append(@, Settle(a.pend, FALSE, why))]

\* "notify about playing": take the list and queue a task that resolves
ResolvePending(a) ==
    IF a.pend = {} THEN a
    ELSE [a EXCEPT !.pend = {}, !.tasks = Append(@, Settle(a.pend, TRUE, "-"))]

AudioNew == [paused |-> TRUE, src |-> NoSong, readyState |-> 0, currentTime |-> 0,
             error |-> FALSE, pend |-> {}, tasks |-> <<>>]

AudioDuration(a) == IF a.readyState >= 1 THEN Dur(a.src) ELSE 0

AudioEnded(a) == a.readyState >= 1 /\ a.currentTime >= Dur(a.src)

\* audio.pause(): internal pause steps
AudioPause(a) ==
    IF a.paused THEN a
    ELSE RejectPending(
           [a EXCEPT !.paused = TRUE,
                     !.tasks = Append(Append(@, Ev("timeupdate")), Ev("pause"))],
           "abort")

\* audio.currentTime = t: the default playback start position while nothing is
\* loaded, a seek (clamped to the seekable range) otherwise
AudioSetCurrentTime(a, t) ==
    IF a.readyState = 0 THEN [a EXCEPT !.currentTime = Max(0, t)]
    ELSE [a EXCEPT !.currentTime = Min(Max(0, t), Dur(a.src)),
                   !.tasks = Append(@, Ev("timeupdate"))]

\* settlement tasks still queued are run at once by the load algorithm
RECURSIVE FlushSettles(_)
FlushSettles(ts) ==
    IF ts = <<>> THEN <<>>
    ELSE (IF Head(ts).ev \in {"settle", "error"}
          THEN Thens(Head(ts).ids, Head(ts).ok, Head(ts).why) ELSE <<>>)
         \o FlushSettles(Tail(ts))

\* audio.src = url; audio.load(): the media element load algorithm. Result is
\* the element and the microtasks the algorithm queues.
AudioLoad(a, s) ==
    LET flushed == FlushSettles(a.tasks)
        a1 == [a EXCEPT !.tasks = <<>>]
        a2 == IF a.src # NoSong /\ ~a.paused
              THEN [a1 EXCEPT !.paused = TRUE, !.pend = {}]
              ELSE a1
        aborted == IF a.src # NoSong /\ ~a.paused
                   THEN Thens(a.pend, FALSE, "abort") ELSE <<>>
    IN [a |-> [a2 EXCEPT !.src = s, !.readyState = 0, !.currentTime = 0,
                         !.error = FALSE],
        m |-> flushed \o aborted]

\* audio.play() for promise id (0: the caller drops the promise). allowed is
\* the platform's autoplay decision for this call.
AudioPlay(a, id, allowed) ==
    IF ~allowed
    THEN [a |-> a, m |-> IF id = 0 THEN <<>> ELSE <<Then(id, FALSE, "notallowed")>>]
    ELSE IF a.error
    THEN [a |-> a, m |-> IF id = 0 THEN <<>> ELSE <<Then(id, FALSE, "notsupported")>>]
    ELSE LET a1 == IF id = 0 THEN a ELSE [a EXCEPT !.pend = @ \cup {id}]
             a2 == IF AudioEnded(a1) THEN AudioSetCurrentTime(a1, 0) ELSE a1
             a3 == IF a2.paused
                   THEN [a2 EXCEPT !.paused = FALSE, !.tasks = Append(@, Ev("play"))]
                   ELSE a2
             a4 == IF a3.readyState = 2 THEN ResolvePending(a3) ELSE a3
         IN [a |-> a4, m |-> <<>>]


\* ------------------------------------------- PlayerProvider (PlayerState)
EmptyState == [currentSong |-> NoSong, isPlaying |-> FALSE, currentTime |-> 0,
               duration |-> 0, isLoading |-> FALSE]

\* Defective variants of two controller updates, against which the
\* properties C2 and C10 are checked for sensitivity: an onLoaded that keeps a
\* duration already known, and a playSong that starts from the empty state.
ctlOnLoadedKeep(c, d) == [c EXCEPT !.duration = IF c.duration # 0 THEN c.duration ELSE d]
ctlPlaySongReset(c, s) == [EmptyState EXCEPT !.isLoading = TRUE, !.currentSong = s]
\* a catch of playSong that leaves isLoading as it is (C11)
ctlPlayFailedKeep(c) == c
ctlOnEndedClear(c) == [c EXCEPT !.isPlaying = FALSE, !.currentTime = 0, !.currentSong = NoSong]

\* the six callbacks registered at mount; t and d are what getCurrentTime()
\* and getDuration() return when the callback runs
ctlOnPlay(c) == [c EXCEPT !.isPlaying = TRUE, !.isLoading = FALSE]
ctlOnPause(c) == [c EXCEPT !.isPlaying = FALSE]
ctlOnTimeUpdate(c, t, d) == [c EXCEPT !.currentTime = t, !.duration = d]
ctlOnLoaded(c, d) == [c EXCEPT !.duration = d]
ctlOnEnded(c) == [c EXCEPT !.isPlaying = FALSE, !.currentTime = 0]
ctlOnError(c) == [c EXCEPT !.isPlaying = FALSE, !.isLoading = FALSE]
\* playSong: the optimistic update before audioService.play, and its catch
ctlPlaySong(c, s) == [c EXCEPT !.isLoading = TRUE, !.currentSong = s]
ctlPlayFailed(c) == [c EXCEPT !.isLoading = FALSE]

\* ---------------------------------------------- AudioService (web build)
getCurrentTime == audio.currentTime
getDuration == AudioDuration(audio)
isPlaying == ~audio.paused
getCurrentSong == currentSong

updateMediaSessionFixed(song, md) == "A"
\* updateMediaSession(): metadata of the current song, if there is one
updateMediaSession(song, md) == IF song # NoSong THEN song ELSE md

\* the element after stop(): pause, then currentTime = 0
StopAudio(a) == AudioSetCurrentTime(AudioPause(a), 0)

\* the wake-lock 'pause' listener and the release in stop()
ReleaseWakeLock ==
    /\ wakeLock' = FALSE
    /\ wlHeld' = IF wakeLock THEN wlHeld - 1 ELSE wlHeld
    /\ UNCHANGED wlPending

\* ------------------------------------------------------ the search screen
\* a query is a string: a sequence of characters
Whitespace == {" ", "\t"}
Chars == Whitespace \cup {"a"}
RECURSIVE Strings(_)
Strings(n) == IF n = 0 THEN {<<>>}
              ELSE Strings(n - 1) \cup {Append(q, c) : q \in Strings(n - 1), c \in Chars}
Queries == Strings(MaxQuery)
NoQuery == <<"-">>
\* the player screen has not been opened yet
NoOpening == [song |-> NoSong, started |-> FALSE]
\* the lists of songs a search may return
ResultLists == {<<>>, <<"A">>, <<"A", "B">>}

TrimNone(q) == q
\* String.prototype.trim(): without the leading and the trailing whitespace
RECURSIVE TrimStart(_)
TrimStart(q) == IF q # <<>> /\ Head(q) \in Whitespace THEN TrimStart(Tail(q)) ELSE q
RECURSIVE TrimEnd(_)
TrimEnd(q) == IF q # <<>> /\ q[Len(q)] \in Whitespace
              THEN TrimEnd(SubSeq(q, 1, Len(q) - 1)) ELSE q
Trim(q) == TrimEnd(TrimStart(q))

InitShared ==
    /\ currentSong = NoSong
    /\ metadata = NoSong
    /\ wakeLock = FALSE
    /\ wlPending = 0
    /\ wlHeld = 0
    /\ audio = AudioNew
    /\ mq = <<>>
    /\ calls = <<>>
    /\ ctl = EmptyState
    /\ sync = FALSE
    /\ ops = 0
    /\ lastOp = "none"
    /\ errCalls = 0
    /\ media = 0
    /\ mediaTimer = FALSE
    /\ mediaCurrentTime = 0
    /\ mediaDuration = 0
    /\ mediaIsPlaying = FALSE
    /\ objs = <<>>
    /\ nq = <<>>
    /\ volume = 100
    /\ playbackRate = 100
    /\ objVolume = [id \in 1..MaxPlays |-> 100]
    /\ subs = [e \in Events |-> 0]
    /\ regs = <<>>
    /\ invoked = [ev |-> "none", sub |-> 0]
    /\ isIntentionallyPaused = FALSE
    /\ hidden = FALSE
    /\ visTimers = 0
    /\ pauseTimers = 0
    /\ pausedByUser = FALSE
    /\ ctxState = "suspended"
    /\ ctxWait = {}
    /\ searchQuery = <<>>
    /\ songs = <<>>
    /\ isLoading = FALSE
    /\ error = FALSE
    /\ searches = <<>>
    /\ searched = <<>>
    /\ lastHandled = NoQuery
    /\ inFlight = <<>>
    /\ shownOf = 0
    /\ probes = <<>>
    /\ opened = NoOpening
    /\ show = FALSE
    /\ logs = <<>>
    /\ logCalls = 0
    /\ toggles = 0

Init == InitShared /\ avail = FALSE

\* An API call is made by a task: when no microtask is pending, or back to
\* back with the previous call of the same task.
Called(op) ==
    /\ ops < MaxOps
    /\ mq = <<>> \/ sync
    /\ ops' = ops + 1
    /\ lastOp' = op
\* the task is still running caller code iff it left microtasks behind
Returned == sync' = (mq' # <<>>)

Url(id) == [k |-> "url", id |-> id, ok |-> TRUE, why |-> "-"]
NewCall(s) == [song |-> s, st |-> "url", why |-> "-"]

\* ------------------------------------------------------------- API calls
\* PlayerProvider.playSong(song): setState, then audioService.play(song) up
\* to its first await (stop(), then getStreamUrl pending)
playSongCall(s) ==
    /\ Called("play")
    /\ Len(calls) < MaxPlays
    /\ ctl' = ctlPlaySong(ctl, s)
    /\ audio' = StopAudio(audio)
    /\ currentSong' = NoSong
    /\ metadata' = NoSong
    /\ ReleaseWakeLock
    /\ calls' = Append(calls, NewCall(s))
    /\ mq' = Append(mq, Url(Len(calls) + 1))
    /\ errCalls' = 0
    /\ Returned
    /\ UNCHANGED nonWebVars

playSong(s) ==
    /\ playSongCall(s)
    /\ UNCHANGED outsideVars

\* pause(), also the media-session 'pause' action
pause ==
    /\ Called("pause")
    /\ audio' = AudioPause(audio)
    /\ UNCHANGED <<currentSong, metadata, lockVars, mq, calls, ctl, errCalls>>
    /\ Returned
    /\ UNCHANGED nonWebVars
    /\ UNCHANGED outsideVars

\* resume(), also the media-session 'play' action; the promise is dropped
resume ==
    /\ Called("resume")
    /\ \E allowed \in BOOLEAN : audio' = AudioPlay(audio, 0, allowed).a
    /\ UNCHANGED <<currentSong, metadata, lockVars, mq, calls, ctl, errCalls>>
    /\ Returned
    /\ UNCHANGED nonWebVars
    /\ UNCHANGED outsideVars

\* PlayerProvider.stop(): audioService.stop(), then the state is replaced
stop ==
    /\ Called("stop")
    /\ audio' = StopAudio(audio)
    /\ currentSong' = NoSong
    /\ metadata' = NoSong
    /\ ReleaseWakeLock
    /\ ctl' = EmptyState
    /\ UNCHANGED <<mq, calls, errCalls>>
    /\ Returned
    /\ UNCHANGED nonWebVars
    /\ UNCHANGED outsideVars

\* seek(time), also the media-session seek actions
seek(t) ==
    /\ Called("seek")
    /\ audio' = AudioSetCurrentTime(audio, t)
    /\ UNCHANGED <<currentSong, metadata, lockVars, mq, calls, ctl, errCalls>>
    /\ Returned
    /\ UNCHANGED nonWebVars
    /\ UNCHANGED outsideVars

\* ------------------------------------------------------------ microtasks
Microtask(k) == mq # <<>> /\ Head(mq).k = k /\ sync' = FALSE

\* the rest of play(song) on the audio element: src, load(), `await audio.play()`
PlayOnElement(id, allowed) ==
    LET L == AudioLoad(audio, calls[id].song)
        P == AudioPlay(L.a, id, allowed)
    IN /\ audio' = P.a
       /\ mq' = Tail(mq) \o L.m \o P.m
       /\ calls' = [calls EXCEPT ![id].st = "pending"]

\* play(song) after `await getStreamUrl(song.videoId)`
UrlResolved ==
    /\ Microtask("url")
    /\ currentSong' = calls[Head(mq).id].song
    /\ \E allowed \in BOOLEAN : PlayOnElement(Head(mq).id, allowed)
    /\ UNCHANGED <<metadata, lockVars, ctl, ops, lastOp, errCalls>>
    /\ UNCHANGED nonWebVars
    /\ UNCHANGED outsideVars

\* play(song) after `await audio.play()` resolved: updateMediaSession(), return
PlayResolved ==
    /\ Microtask("then") /\ Head(mq).ok
    /\ metadata' = updateMediaSession(currentSong, metadata)
    /\ calls' = [calls EXCEPT ![Head(mq).id].st = "done"]
    /\ mq' = Tail(mq)
    /\ UNCHANGED <<currentSong, lockVars, audio, ctl, ops, lastOp, errCalls, nativeVars>>
    /\ UNCHANGED outsideVars

\* play(song) after `await audio.play()` rejected: play rethrows, and the
\* catch of playSong clears isLoading and rethrows
PlayRejected ==
    /\ Microtask("then") /\ ~Head(mq).ok
    /\ ctl' = ctlPlayFailed(ctl)
    /\ calls' = [calls EXCEPT ![Head(mq).id].st = "threw",
                              ![Head(mq).id].why = Head(mq).why]
    /\ mq' = Tail(mq)
    /\ UNCHANGED <<currentSong, metadata, lockVars, audio, ops, lastOp, errCalls,
                   nativeVars>>
    /\ UNCHANGED outsideVars

\* ------------------------------------------- tasks of the media element
\* getCurrentTime() / getDuration() of either build, from the fields they read
CurrentTimeOf(m, mct, a) == IF m # 0 THEN mct ELSE a.currentTime
DurationOf(m, md, a) == IF m # 0 THEN md ELSE AudioDuration(a)

Task(e) == mq = <<>> /\ audio.tasks # <<>> /\ Head(audio.tasks).ev = e /\ sync' = FALSE
Popped == [audio EXCEPT !.tasks = Tail(@)]
TimeNow == CurrentTimeOf(media, mediaCurrentTime, audio)
DurationNow == DurationOf(media, mediaDuration, audio)

\* 'play' listeners: updateMediaSession + onPlay, and the wake-lock request
DeliverPlay ==
    /\ Task("play")
    /\ audio' = Popped
    /\ metadata' = updateMediaSession(currentSong, metadata)
    /\ ctl' = ctlOnPlay(ctl)
    /\ wlPending' = wlPending + 1
    /\ UNCHANGED <<currentSong, wakeLock, wlHeld, mq, calls, ops, lastOp, errCalls,
                   nativeVars>>
    /\ UNCHANGED outsideVars

\* 'pause' listeners: onPause, and the wake-lock release
DeliverPause ==
    /\ Task("pause")
    /\ audio' = Popped
    /\ ctl' = ctlOnPause(ctl)
    /\ ReleaseWakeLock
    /\ UNCHANGED <<currentSong, metadata, mq, calls, ops, lastOp, errCalls, nativeVars>>
    /\ UNCHANGED outsideVars

\* 'timeupdate' listener: updatePositionState + onTimeUpdate
DeliverTimeUpdate ==
    /\ Task("timeupdate")
    /\ audio' = Popped
    /\ ctl' = ctlOnTimeUpdate(ctl, TimeNow, DurationNow)
    /\ UNCHANGED <<currentSong, metadata, lockVars, mq, calls, ops, lastOp, errCalls,
                   nativeVars>>
    /\ UNCHANGED outsideVars

\* 'loadedmetadata' listener: updateMediaSession + onLoaded
DeliverLoaded ==
    /\ Task("loadedmetadata")
    /\ audio' = Popped
    /\ metadata' = updateMediaSession(currentSong, metadata)
    /\ ctl' = ctlOnLoaded(ctl, DurationNow)
    /\ UNCHANGED <<currentSong, lockVars, mq, calls, ops, lastOp, errCalls, nativeVars>>
    /\ UNCHANGED outsideVars

\* the load-failure task: error is set, 'error' fires (onError), then the
\* pending play promises are rejected
DeliverError ==
    /\ Task("error")
    /\ audio' = [Popped EXCEPT !.error = TRUE]
    /\ ctl' = ctlOnError(ctl)
    /\ errCalls' = errCalls + 1
    /\ mq' = Thens(Head(audio.tasks).ids, FALSE, "notsupported")
    /\ UNCHANGED <<currentSong, metadata, lockVars, calls, ops, lastOp, nativeVars>>
    /\ UNCHANGED outsideVars

\* the end-of-playback task: 'timeupdate'; paused := true and 'pause' if the
\* element still has ended playback; 'ended'
EndOfPlayback(releaseOnEnded) ==
    /\ Task("ended")
    /\ LET pausing == AudioEnded(audio) /\ ~audio.paused
           c1 == ctlOnTimeUpdate(ctl, TimeNow, DurationNow)
           c2 == IF pausing THEN ctlOnPause(c1) ELSE c1
       IN /\ audio' = [Popped EXCEPT !.paused = IF pausing THEN TRUE ELSE @]
          /\ ctl' = ctlOnEnded(c2)
          /\ IF pausing \/ releaseOnEnded THEN ReleaseWakeLock ELSE UNCHANGED lockVars
    /\ UNCHANGED <<currentSong, metadata, mq, calls, ops, lastOp, errCalls, nativeVars>>
    /\ UNCHANGED outsideVars

DeliverEnded == EndOfPlayback(FALSE)

\* a task that settles play promises: their awaits continue as microtasks
DeliverSettle ==
    /\ Task("settle")
    /\ audio' = Popped
    /\ mq' = Thens(Head(audio.tasks).ids, Head(audio.tasks).ok, Head(audio.tasks).why)
    /\ UNCHANGED <<currentSong, metadata, lockVars, calls, ctl, ops, lastOp, errCalls,
                   nativeVars>>
    /\ UNCHANGED outsideVars

\* --------------------------------------------------------- the platform
Idle == mq = <<>> /\ sync' = FALSE
Loading == Idle /\ audio.src # NoSong /\ ~audio.error
              /\ \A i \in 1..Len(audio.tasks) : audio.tasks[i].ev # "error"
Room == Len(audio.tasks) < MaxTasks
OnlyAudio == UNCHANGED <<currentSong, metadata, lockVars, mq, calls, ctl, ops, lastOp,
                         errCalls, nativeVars>>

\* the stream's metadata arrives
LoadedMetadata ==
    /\ Loading /\ Room /\ audio.readyState = 0
    /\ audio' = [audio EXCEPT !.readyState = 1,
                              !.currentTime = Min(@, Dur(audio.src)),
                              !.tasks = Append(@, Ev("loadedmetadata"))]
    /\ OnlyAudio
    /\ UNCHANGED outsideVars

\* enough data to play: pending play promises resolve if the element plays
CanPlay ==
    /\ Loading /\ audio.readyState = 1
    /\ audio' = LET a == [audio EXCEPT !.readyState = 2]
                IN IF a.paused THEN a ELSE ResolvePending(a)
    /\ OnlyAudio
    /\ UNCHANGED outsideVars

\* the stream cannot be fetched or is not playable
LoadError ==
    /\ Loading /\ audio.readyState = 0
    /\ audio' = [audio EXCEPT !.pend = {},
                   !.tasks = Append(@, [ev |-> "error", ids |-> audio.pend,
                                         ok |-> FALSE, why |-> "notsupported"])]
    /\ OnlyAudio
    /\ UNCHANGED outsideVars

\* playback advances by a second
Tick ==
    /\ Loading /\ Room /\ audio.readyState = 2 /\ ~audio.paused
    /\ audio.currentTime < Dur(audio.src)
    /\ audio' = [audio EXCEPT !.currentTime = @ + 1,
                              !.tasks = Append(@, Ev("timeupdate"))]
    /\ OnlyAudio
    /\ UNCHANGED outsideVars

\* playback reaches the end of the stream
End ==
    /\ Loading /\ audio.readyState = 2 /\ ~audio.paused
    /\ audio.currentTime >= Dur(audio.src)
    /\ \A i \in 1..Len(audio.tasks) : audio.tasks[i].ev # "ended"
    /\ audio' = [audio EXCEPT !.tasks = Append(@, Ev("ended"))]
    /\ OnlyAudio
    /\ UNCHANGED outsideVars

\* navigator.wakeLock.request('screen') resolves: this.wakeLock = sentinel
WakeLockGranted ==
    /\ Idle /\ wlPending > 0
    /\ wlPending' = wlPending - 1
    /\ wlHeld' = wlHeld + 1
    /\ wakeLock' = TRUE
    /\ UNCHANGED <<currentSong, metadata, audio, mq, calls, ctl, ops, lastOp, errCalls,
                   nativeVars>>
    /\ UNCHANGED outsideVars

\* navigator.wakeLock.request('screen') rejects: caught and logged
WakeLockDenied ==
    /\ Idle /\ wlPending > 0
    /\ wlPending' = wlPending - 1
    /\ UNCHANGED <<currentSong, metadata, wakeLock, wlHeld, audio, mq, calls, ctl, ops,
                   lastOp, errCalls, nativeVars>>
    /\ UNCHANGED outsideVars

\* what the element and the platform do by themselves, in either build
ElementStep ==
    \/ DeliverPlay
    \/ DeliverPause
    \/ DeliverTimeUpdate
    \/ DeliverLoaded
    \/ DeliverError
    \/ DeliverSettle
    \/ LoadedMetadata
    \/ CanPlay
    \/ LoadError
    \/ Tick
    \/ End
    \/ WakeLockGranted
    \/ WakeLockDenied

Next ==
    \/ \E s \in Songs : playSong(s)
    \/ pause
    \/ resume
    \/ stop
    \/ \E t \in SeekTimes : seek(t)
    \/ UrlResolved
    \/ PlayResolved
    \/ PlayRejected
    \/ DeliverEnded
    \/ ElementStep

Spec == Init /\ [][Next]_vars

\* The event loop runs every queued microtask: the continuations of play
\* are never postponed for ever.
SpecFair ==
    Spec /\ WF_vars(UrlResolved) /\ WF_vars(PlayResolved) /\ WF_vars(PlayRejected)

\* ------------------------------------- AudioService, Cordova Media build
\* A native Media object: st is the player's state, pos its position,
\* prepared whether getDuration() already knows the duration.
NoObj == [st |-> "none", pos |-> 0, prepared |-> FALSE]
Cb(id, kind, val) == [id |-> id, kind |-> kind, val |-> val]
Active(o) == o.st \in {"starting", "running", "paused"}

\* media.stop(); media.release(): a playing or paused player reports
\* MEDIA_STOPPED, then the object is gone
ObjStopRelease(os, id) == [os EXCEPT ![id].st = "released", ![id].pos = 0]
CbStop(os, q, id) ==
    IF os[id].st \in {"running", "paused"} THEN Append(q, Cb(id, "stopped", 0)) ELSE q

\* stopCordovaMedia(), when this.media is set
stopCordovaMedia ==
    /\ mediaTimer' = FALSE
    /\ objs' = ObjStopRelease(objs, media)
    /\ nq' = CbStop(objs, nq, media)
    /\ media' = 0
    /\ mediaCurrentTime' = 0
    /\ mediaDuration' = 0
    /\ mediaIsPlaying' = FALSE

\* stop() of the Cordova build
StopCordova ==
    /\ IF media # 0 THEN stopCordovaMedia
       ELSE UNCHANGED <<mediaTimer, objs, nq, media, mediaCurrentTime, mediaDuration,
                        mediaIsPlaying>>
    /\ audio' = StopAudio(audio)
    /\ metadata' = NoSong
    /\ ReleaseWakeLock

\* playSong(song) with the Cordova build: play(song) runs stop(), sets
\* currentSong and awaits getStreamUrl
playSongCordova(s) ==
    /\ Called("play")
    /\ Len(calls) < MaxPlays
    /\ ctl' = ctlPlaySong(ctl, s)
    /\ IF media # 0
       THEN /\ stopCordovaMedia
            /\ objs' = Append(ObjStopRelease(objs, media), NoObj)
       ELSE /\ objs' = Append(objs, NoObj)
            /\ UNCHANGED <<mediaTimer, nq, media, mediaCurrentTime, mediaDuration,
                           mediaIsPlaying>>
    /\ audio' = StopAudio(audio)
    /\ metadata' = NoSong
    /\ ReleaseWakeLock
    /\ currentSong' = s
    /\ calls' = Append(calls, NewCall(s))
    /\ mq' = Append(mq, Url(Len(calls) + 1))
    /\ errCalls' = 0
    /\ Returned
    /\ UNCHANGED avail
    /\ UNCHANGED outsideVars

\* play(song) after the await: a new Media object is created and played when
\* the plugin is available, the audio element is used otherwise
UrlResolvedCordova ==
    /\ Microtask("url")
    /\ LET id == Head(mq).id
       IN IF avail
          THEN /\ objs' = [objs EXCEPT ![id] = [st |-> "starting", pos |-> 0,
                                                 prepared |-> FALSE]]
               /\ media' = id
               /\ mediaIsPlaying' = TRUE
               /\ ctl' = ctlOnPlay(ctl)
               /\ mediaTimer' = TRUE
               /\ calls' = [calls EXCEPT ![id].st = "done"]
               /\ mq' = Tail(mq)
               /\ UNCHANGED <<audio, mediaCurrentTime, mediaDuration, nq>>
          ELSE /\ \E allowed \in BOOLEAN : PlayOnElement(id, allowed)
               /\ UNCHANGED <<ctl, objs, media, mediaIsPlaying, mediaTimer,
                              mediaCurrentTime, mediaDuration, nq>>
    /\ UNCHANGED <<currentSong, metadata, lockVars, ops, lastOp, errCalls, avail>>
    /\ UNCHANGED outsideVars

pauseCordova ==
    /\ Called("pause")
    /\ IF media # 0
       THEN /\ objs' = IF objs[media].st = "running"
                       THEN [objs EXCEPT ![media].st = "paused"] ELSE objs
            /\ nq' = IF objs[media].st = "running"
                     THEN Append(nq, Cb(media, "paused", 0)) ELSE nq
            /\ mediaIsPlaying' = FALSE
            /\ ctl' = ctlOnPause(ctl)
            /\ UNCHANGED audio
       ELSE /\ audio' = AudioPause(audio)
            /\ UNCHANGED <<objs, nq, mediaIsPlaying, ctl>>
    /\ UNCHANGED <<currentSong, metadata, lockVars, mq, calls, errCalls, avail, media,
                   mediaTimer, mediaCurrentTime, mediaDuration>>
    /\ Returned
    /\ UNCHANGED outsideVars

resumeCordova ==
    /\ Called("resume")
    /\ IF media # 0
       THEN /\ objs' = IF objs[media].st \in {"paused", "stopped"}
                       THEN [objs EXCEPT ![media].st = "running"] ELSE objs
            /\ nq' = IF objs[media].st \in {"paused", "stopped"}
                     THEN Append(nq, Cb(media, "running", 0)) ELSE nq
            /\ mediaIsPlaying' = TRUE
            /\ ctl' = ctlOnPlay(ctl)
            /\ mediaTimer' = TRUE
            /\ UNCHANGED audio
       ELSE /\ \E allowed \in BOOLEAN : audio' = AudioPlay(audio, 0, allowed).a
            /\ UNCHANGED <<objs, nq, mediaIsPlaying, ctl, mediaTimer>>
    /\ UNCHANGED <<currentSong, metadata, lockVars, mq, calls, errCalls, avail, media,
                   mediaCurrentTime, mediaDuration>>
    /\ Returned
    /\ UNCHANGED outsideVars

\* PlayerProvider.stop() with the Cordova build
stopCordova ==
    /\ Called("stop")
    /\ StopCordova
    /\ currentSong' = NoSong
    /\ ctl' = EmptyState
    /\ UNCHANGED <<mq, calls, errCalls, avail>>
    /\ Returned
    /\ UNCHANGED outsideVars

seekCordova(t) ==
    /\ Called("seek")
    /\ IF media # 0
       THEN /\ objs' = IF objs[media].prepared
                       THEN [objs EXCEPT ![media].pos = Min(Max(0, t), Dur(calls[media].song))]
                       ELSE objs
            /\ mediaCurrentTime' = Max(0, t)
            /\ ctl' = ctlOnTimeUpdate(ctl, Max(0, t), mediaDuration)
            /\ UNCHANGED audio
       ELSE /\ audio' = AudioSetCurrentTime(audio, t)
            /\ UNCHANGED <<objs, mediaCurrentTime, ctl>>
    /\ UNCHANGED <<currentSong, metadata, lockVars, mq, calls, errCalls, avail, media,
                   mediaTimer, mediaDuration, mediaIsPlaying, nq>>
    /\ Returned
    /\ UNCHANGED outsideVars

\* the 'ended' listeners of the Cordova build also release the wake lock
DeliverEndedCordova == EndOfPlayback(TRUE)

\* the setInterval callback of startMediaPolling
Poll ==
    /\ Idle /\ mediaTimer /\ media # 0 /\ Len(nq) < MaxTasks
    /\ LET d == IF objs[media].prepared THEN Dur(calls[media].song) ELSE -1
           fresh == d > 0 /\ d # mediaDuration
       IN /\ mediaDuration' = IF fresh THEN d ELSE mediaDuration
          /\ ctl' = IF fresh THEN ctlOnLoaded(ctl, d) ELSE ctl
    /\ nq' = IF objs[media].st \in {"running", "paused"}
             THEN Append(nq, Cb(media, "position", objs[media].pos)) ELSE nq
    /\ UNCHANGED <<currentSong, metadata, lockVars, audio, mq, calls, ops, lastOp,
                   errCalls, avail, media, mediaTimer, mediaCurrentTime, mediaIsPlaying,
                   objs>>
    /\ UNCHANGED outsideVars

\* ----------------------------------------------------- the native plugin
NativeOnly == UNCHANGED <<currentSong, metadata, lockVars, audio, mq, calls, ctl, ops,
                          lastOp, errCalls, avail, media, mediaTimer, mediaCurrentTime,
                          mediaDuration, mediaIsPlaying>>

\* the player of a Media object is prepared and runs: MEDIA_RUNNING
NativeStarted ==
    /\ Idle /\ Len(nq) < MaxTasks
    /\ \E id \in 1..Len(objs) :
         /\ objs[id].st = "starting"
         /\ objs' = [objs EXCEPT ![id].st = "running", ![id].prepared = TRUE]
         /\ nq' = Append(nq, Cb(id, "running", 0))
    /\ NativeOnly
    /\ UNCHANGED outsideVars

\* the player cannot play the stream: MEDIA_ERROR
NativeFailed ==
    /\ Idle /\ Len(nq) < MaxTasks
    /\ \E id \in 1..Len(objs) :
         /\ objs[id].st = "starting"
         /\ objs' = [objs EXCEPT ![id].st = "failed"]
         /\ nq' = Append(nq, Cb(id, "error", 0))
    /\ NativeOnly
    /\ UNCHANGED outsideVars

NativeTick ==
    /\ Idle
    /\ \E id \in 1..Len(objs) :
         /\ objs[id].st = "running" /\ objs[id].pos < Dur(calls[id].song)
         /\ objs' = [objs EXCEPT ![id].pos = @ + 1]
    /\ UNCHANGED nq
    /\ NativeOnly
    /\ UNCHANGED outsideVars

\* the player reaches the end of the stream: MEDIA_STOPPED
NativeEnd ==
    /\ Idle /\ Len(nq) < MaxTasks
    /\ \E id \in 1..Len(objs) :
         /\ objs[id].st = "running" /\ objs[id].pos >= Dur(calls[id].song)
         /\ objs' = [objs EXCEPT ![id].st = "stopped"]
         /\ nq' = Append(nq, Cb(id, "stopped", 0))
    /\ NativeOnly
    /\ UNCHANGED outsideVars

\* the callbacks given to `new Media(...)`, run by the plugin bridge
Native(kind) == Idle /\ nq # <<>> /\ Head(nq).kind = kind /\ nq' = Tail(nq)
NativeFrame == UNCHANGED <<currentSong, metadata, lockVars, audio, mq, calls, ops, lastOp,
                           avail, media, mediaTimer, objs>>

\* status MEDIA_RUNNING
OnStatusRunning ==
    /\ Native("running")
    /\ mediaIsPlaying' = TRUE
    /\ ctl' = ctlOnPlay(ctl)
    /\ UNCHANGED <<mediaCurrentTime, mediaDuration, errCalls>>
    /\ NativeFrame
    /\ UNCHANGED outsideVars

\* status MEDIA_PAUSED
OnStatusPaused ==
    /\ Native("paused")
    /\ mediaIsPlaying' = FALSE
    /\ ctl' = ctlOnPause(ctl)
    /\ UNCHANGED <<mediaCurrentTime, mediaDuration, errCalls>>
    /\ NativeFrame
    /\ UNCHANGED outsideVars

\* status MEDIA_STOPPED, after which the plugin calls the success callback
OnStatusStopped ==
    /\ Native("stopped")
    /\ mediaIsPlaying' = FALSE
    /\ ctl' = ctlOnEnded(ctlOnPause(ctl))
    /\ UNCHANGED <<mediaCurrentTime, mediaDuration, errCalls>>
    /\ NativeFrame
    /\ UNCHANGED outsideVars

\* the error callback
OnMediaError ==
    /\ Native("error")
    /\ mediaIsPlaying' = FALSE
    /\ ctl' = ctlOnError(ctl)
    /\ errCalls' = errCalls + 1
    /\ UNCHANGED <<mediaCurrentTime, mediaDuration>>
    /\ NativeFrame
    /\ UNCHANGED outsideVars

\* the success callback of getCurrentPosition
OnPosition ==
    /\ Native("position")
    /\ mediaCurrentTime' = Head(nq).val
    /\ ctl' = ctlOnTimeUpdate(ctl, CurrentTimeOf(media, Head(nq).val, audio), DurationNow)
    /\ UNCHANGED <<mediaIsPlaying, mediaDuration, errCalls>>
    /\ NativeFrame
    /\ UNCHANGED outsideVars

\* 'deviceready': window.cordova and window.Media exist from now on
DeviceReady ==
    /\ Idle /\ ~avail
    /\ avail' = TRUE
    /\ UNCHANGED <<currentSong, metadata, lockVars, audio, mq, calls, ctl, ops, lastOp,
                   errCalls, media, mediaTimer, mediaCurrentTime, mediaDuration,
                   mediaIsPlaying, objs, nq>>
    /\ UNCHANGED outsideVars

NextCordova ==
    \/ \E s \in Songs : playSongCordova(s)
    \/ pauseCordova
    \/ resumeCordova
    \/ stopCordova
    \/ \E t \in SeekTimes : seekCordova(t)
    \/ UrlResolvedCordova
    \/ PlayResolved
    \/ PlayRejected
    \/ DeliverEndedCordova
    \/ ElementStep
    \/ Poll
    \/ NativeStarted
    \/ NativeFailed
    \/ NativeTick
    \/ NativeEnd
    \/ OnStatusRunning
    \/ OnStatusPaused
    \/ OnStatusStopped
    \/ OnMediaError
    \/ OnPosition
    \/ DeviceReady

SpecCordova == Init /\ [][NextCordova]_vars


\* ---------------------------------------- AudioService, Capacitor build
\* a heuristic that resumes whenever the element is paused (C18)
ShouldResumeAnyPause(song, a, flag) == song # NoSong /\ a.paused
\* this.currentSong && this.audio.paused && !this.isIntentionallyPaused
ShouldResume(song, a, flag) == song # NoSong /\ a.paused /\ ~flag

\* this.audio.play().catch(console.error) when the check passes
Nudge ==
    IF ShouldResume(currentSong, audio, isIntentionallyPaused)
    THEN \E allowed \in BOOLEAN : audio' = AudioPlay(audio, 0, allowed).a
    ELSE UNCHANGED audio

\* the songs played under the Capacitor build's specification
CapSongs == {"A"}

\* playSong(song) with the Capacitor build: stop(), then getStreamUrl pending
playSongCap(s) ==
    /\ Called("play")
    /\ Len(calls) < MaxPlays
    /\ ctl' = ctlPlaySong(ctl, s)
    /\ audio' = StopAudio(audio)
    /\ currentSong' = NoSong
    /\ metadata' = NoSong
    /\ calls' = Append(calls, NewCall(s))
    /\ mq' = Append(mq, Url(Len(calls) + 1))
    /\ errCalls' = 0
    /\ pausedByUser' = FALSE
    /\ UNCHANGED <<isIntentionallyPaused, hidden, visTimers, pauseTimers, ctxState, ctxWait>>
    /\ UNCHANGED besidesCapacitor
    /\ Returned

\* play(song) after `await getStreamUrl`: src, load(), then audio.play(),
\* after `await audioContext.resume()` while the context is suspended
UrlResolvedCap ==
    /\ Microtask("url")
    /\ currentSong' = calls[Head(mq).id].song
    /\ IF ctxState = "suspended"
       THEN LET L == AudioLoad(audio, calls[Head(mq).id].song)
            IN /\ audio' = L.a
               /\ mq' = Tail(mq) \o L.m
               /\ ctxWait' = ctxWait \cup {Head(mq).id}
               /\ calls' = [calls EXCEPT ![Head(mq).id].st = "ctx"]
       ELSE /\ \E allowed \in BOOLEAN : PlayOnElement(Head(mq).id, allowed)
            /\ UNCHANGED ctxWait
    /\ UNCHANGED <<metadata, ctl, ops, lastOp, errCalls, isIntentionallyPaused, hidden,
                   visTimers, pauseTimers, pausedByUser, ctxState>>
    /\ UNCHANGED besidesCapacitor

\* the audio context starts running (resumed by play or by the touch and
\* click listeners): the plays awaiting it continue, in call order
ContextRunning ==
    /\ Idle /\ ctxState = "suspended"
    /\ ctxState' = "running"
    /\ mq' = [i \in 1..Len(Thens(ctxWait, TRUE, "-")) |->
                [Thens(ctxWait, TRUE, "-")[i] EXCEPT !.k = "ctx"]]
    /\ ctxWait' = {}
    /\ UNCHANGED <<currentSong, metadata, audio, calls, ctl, ops, lastOp, errCalls,
                   isIntentionallyPaused, hidden, visTimers, pauseTimers, pausedByUser>>
    /\ UNCHANGED besidesCapacitor

\* play(song) after `await this.audioContext.resume()`
ContextResumed ==
    /\ Microtask("ctx")
    /\ \E allowed \in BOOLEAN :
         LET P == AudioPlay(audio, Head(mq).id, allowed)
         IN /\ audio' = P.a
            /\ mq' = Tail(mq) \o P.m
    /\ calls' = [calls EXCEPT ![Head(mq).id].st = "pending"]
    /\ UNCHANGED <<currentSong, metadata, ctl, ops, lastOp, errCalls, capacitorVars>>
    /\ UNCHANGED besidesCapacitor

\* pause(), also the media-session 'pause' action
pauseCap ==
    /\ Called("pause")
    /\ isIntentionallyPaused' = TRUE
    /\ audio' = AudioPause(audio)
    /\ pausedByUser' = TRUE
    /\ UNCHANGED <<currentSong, metadata, mq, calls, ctl, errCalls, hidden, visTimers,
                   pauseTimers, ctxState, ctxWait>>
    /\ UNCHANGED besidesCapacitor
    /\ Returned

\* resume(), also the media-session 'play' action
resumeCap ==
    /\ Called("resume")
    /\ isIntentionallyPaused' = FALSE
    /\ \E allowed \in BOOLEAN : audio' = AudioPlay(audio, 0, allowed).a
    /\ pausedByUser' = FALSE
    /\ UNCHANGED <<currentSong, metadata, mq, calls, ctl, errCalls, hidden, visTimers,
                   pauseTimers, ctxState, ctxWait>>
    /\ UNCHANGED besidesCapacitor
    /\ Returned

\* PlayerProvider.stop() with the Capacitor build
stopCap ==
    /\ Called("stop")
    /\ audio' = StopAudio(audio)
    /\ currentSong' = NoSong
    /\ metadata' = NoSong
    /\ ctl' = EmptyState
    /\ UNCHANGED <<mq, calls, errCalls, capacitorVars>>
    /\ UNCHANGED besidesCapacitor
    /\ Returned

\* a handler of the page's auto-resume heuristics runs as a task of its own
Handled(h) == Idle /\ lastOp' = "heuristic" /\ UNCHANGED ops
HeuristicFrame ==
    UNCHANGED <<currentSong, mq, calls, ctl, errCalls, isIntentionallyPaused,
                pausedByUser, ctxState, ctxWait, besidesCapacitor>>

\* 'visibilitychange' listener
VisibilityChange ==
    /\ Handled("visibilitychange")
    /\ hidden' = ~hidden
    /\ IF ~hidden /\ ~audio.paused
       THEN /\ visTimers < MaxTimers
            /\ visTimers' = visTimers + 1
            /\ UNCHANGED metadata
       ELSE /\ metadata' = IF hidden THEN updateMediaSession(currentSong, metadata)
                           ELSE metadata
            /\ UNCHANGED visTimers
    /\ UNCHANGED <<audio, pauseTimers>>
    /\ HeuristicFrame

\* the timeout set by the 'visibilitychange' listener
VisibilityTimeout ==
    /\ Handled("visibilitytimeout")
    /\ visTimers > 0
    /\ visTimers' = visTimers - 1
    /\ Nudge
    /\ UNCHANGED <<metadata, hidden, pauseTimers>>
    /\ HeuristicFrame

\* 'resume' listener of the document
PageResume ==
    /\ Handled("pageresume")
    /\ Nudge
    /\ UNCHANGED <<metadata, hidden, visTimers, pauseTimers>>
    /\ HeuristicFrame

\* 'focus' listener of the window
WindowFocus ==
    /\ Handled("focus")
    /\ Nudge
    /\ UNCHANGED <<metadata, hidden, visTimers, pauseTimers>>
    /\ HeuristicFrame

\* the timeout set by the unexpected-pause listener
PauseTimeout ==
    /\ Handled("pausetimeout")
    /\ pauseTimers > 0
    /\ pauseTimers' = pauseTimers - 1
    /\ Nudge
    /\ UNCHANGED <<metadata, hidden, visTimers>>
    /\ HeuristicFrame

\* 'play' listener: updateMediaSession + onPlay
DeliverPlayCap ==
    /\ Task("play")
    /\ audio' = Popped
    /\ metadata' = updateMediaSession(currentSong, metadata)
    /\ ctl' = ctlOnPlay(ctl)
    /\ UNCHANGED <<currentSong, mq, calls, ops, lastOp, errCalls, capacitorVars>>
    /\ UNCHANGED besidesCapacitor

\* 'pause' listeners: onPause, and the unexpected-pause check that sets a timeout
DeliverPauseCap ==
    /\ Task("pause")
    /\ audio' = Popped
    /\ ctl' = ctlOnPause(ctl)
    /\ IF currentSong # NoSong /\ ~AudioEnded(audio) /\ ~isIntentionallyPaused
       THEN pauseTimers < MaxTimers /\ pauseTimers' = pauseTimers + 1
       ELSE UNCHANGED pauseTimers
    /\ UNCHANGED <<currentSong, metadata, mq, calls, ops, lastOp, errCalls,
                   isIntentionallyPaused, hidden, visTimers, pausedByUser, ctxState,
                   ctxWait>>
    /\ UNCHANGED besidesCapacitor

\* the platform interrupts playback (another app takes the audio focus)
Interrupted ==
    /\ Idle /\ Room /\ ~audio.paused
    /\ audio' = AudioPause(audio)
    /\ OnlyAudio
    /\ UNCHANGED outsideVars

NextCapacitor ==
    \/ \E s \in CapSongs : playSongCap(s)
    \/ pauseCap
    \/ resumeCap
    \/ stopCap
    \/ UrlResolvedCap
    \/ ContextRunning
    \/ ContextResumed
    \/ PlayResolved
    \/ PlayRejected
    \/ DeliverPlayCap
    \/ DeliverPauseCap
    \/ DeliverTimeUpdate
    \/ DeliverLoaded
    \/ DeliverError
    \/ DeliverEnded
    \/ DeliverSettle
    \/ LoadedMetadata
    \/ CanPlay
    \/ LoadError
    \/ Tick
    \/ End
    \/ Interrupted
    \/ VisibilityChange
    \/ VisibilityTimeout
    \/ PageResume
    \/ WindowFocus
    \/ PauseTimeout

SpecCapacitor == Init /\ [][NextCapacitor]_vars

\* ------------------------------------------------ volume and playback rate
\* requested values, in hundredths (-1, 0, 0.5, 1, 5 and 0.1, 1, 3)
Volumes == {-100, 0, 50, 100, 500}
Rates == {10, 100, 300}

\* Math.max(0, Math.min(1, volume)) and Math.max(0.25, Math.min(2, rate))
\* a rate setter without the clamp (C13)
ClampRateNone(r) == r
ClampVolume(v) == Max(0, Min(100, v))
ClampRate(r) == Max(25, Min(200, r))

getVolume == volume
getPlaybackRate == playbackRate
\* the volume of the primitive that is playing
ActiveVolume == IF media # 0 THEN objVolume[media] ELSE volume

SettingFrame ==
    UNCHANGED <<currentSong, metadata, lockVars, audio, mq, calls, ctl, errCalls,
                nativeVars, besidesSettings>>

\* setVolume(volume) of the Cordova build; without a Media object it is the
\* setVolume of the web build
setVolumeCordova(v) ==
    /\ Called("setVolume")
    /\ IF media # 0
       THEN objVolume' = [objVolume EXCEPT ![media] = ClampVolume(v)] /\ UNCHANGED volume
       ELSE volume' = ClampVolume(v) /\ UNCHANGED objVolume
    /\ UNCHANGED playbackRate
    /\ SettingFrame
    /\ Returned

\* setPlaybackRate(rate) of the Cordova build; without a Media object it is
\* the setPlaybackRate of the web build
setPlaybackRateCordova(r) ==
    /\ Called("setPlaybackRate")
    /\ playbackRate' = IF media # 0 THEN playbackRate ELSE ClampRate(r)
    /\ UNCHANGED <<volume, objVolume>>
    /\ SettingFrame
    /\ Returned

\* the Cordova build with its setters, before any stream has loaded
NextSettings ==
    \/ DeviceReady
    \/ \E s \in Songs : playSongCordova(s)
    \/ UrlResolvedCordova
    \/ PlayRejected
    \/ stopCordova
    \/ \E v \in Volumes : setVolumeCordova(v)
    \/ \E r \in Rates : setPlaybackRateCordova(r)

SpecSettings == Init /\ [][NextSettings]_vars

\* ------------------------------------------------------------ subscribers
\* the subscriber stored by the first registration only (C16)
SetSubscriberOnce(sb, e, c) == IF sb[e] = 0 THEN [sb EXCEPT ![e] = c] ELSE sb
\* this.on<Event>Callback = callback
SetSubscriber(sb, e, c) == [sb EXCEPT ![e] = c]

Registered(e, c) ==
    /\ Len(regs) < MaxRegs
    /\ regs' = Append(regs, [ev |-> e, sub |-> c])
    /\ UNCHANGED <<invoked, besidesSubscribers>>

onPlay(c) == subs' = SetSubscriber(subs, "play", c) /\ Registered("play", c)
onPause(c) == subs' = SetSubscriber(subs, "pause", c) /\ Registered("pause", c)
onEnded(c) == subs' = SetSubscriber(subs, "ended", c) /\ Registered("ended", c)
onTimeUpdate(c) ==
    subs' = SetSubscriber(subs, "timeupdate", c) /\ Registered("timeupdate", c)
onLoaded(c) == subs' = SetSubscriber(subs, "loaded", c) /\ Registered("loaded", c)
onError(c) == subs' = SetSubscriber(subs, "error", c) /\ Registered("error", c)

\* this.on<Event>Callback?.() in the listener of a platform event
Invocation(e, c) == [ev |-> e, sub |-> c]
InvokeFrame == UNCHANGED <<subs, regs, besidesSubscribers>>

ListenPlay == invoked' = Invocation("play", subs["play"]) /\ InvokeFrame
ListenPause == invoked' = Invocation("pause", subs["pause"]) /\ InvokeFrame
ListenEnded == invoked' = Invocation("ended", subs["ended"]) /\ InvokeFrame
ListenTimeUpdate ==
    invoked' = Invocation("timeupdate", subs["timeupdate"]) /\ InvokeFrame
ListenLoadedMetadata == invoked' = Invocation("loaded", subs["loaded"]) /\ InvokeFrame
ListenError == invoked' = Invocation("error", subs["error"]) /\ InvokeFrame

NextSubscribers ==
    \/ \E c \in Subscribers : onPlay(c)
    \/ \E c \in Subscribers : onPause(c)
    \/ \E c \in Subscribers : onEnded(c)
    \/ \E c \in Subscribers : onTimeUpdate(c)
    \/ \E c \in Subscribers : onLoaded(c)
    \/ \E c \in Subscribers : onError(c)
    \/ ListenPlay
    \/ ListenPause
    \/ ListenEnded
    \/ ListenTimeUpdate
    \/ ListenLoadedMetadata
    \/ ListenError

SpecSubscribers == Init /\ [][NextSubscribers]_vars

\* ------------------------------------------------------------- step kinds
\* an API call of the given kind is made in this step
CallStep(op) == ops' = ops + 1 /\ lastOp' = op
\* the continuation of a settled play promise runs in this step
ThenStep == mq # <<>> /\ Head(mq).k = "then" /\ mq' = Tail(mq)
\* the media element runs its task e in this step
TaskStep(e) == Task(e) /\ audio'.tasks = Tail(audio.tasks) /\ ops' = ops

LastSong == calls[Len(calls)].song
AllSettled == \A i \in 1..Len(calls) : calls[i].st \in {"done", "threw"}
Quiet == mq = <<>> /\ audio.tasks = <<>>

\* ------------------------------------------------------------------ claims

\* C1: once play(song) was invoked and stop() called at any later point, also
\* while the continuation of play is pending, the adapter ends (all
\* continuations run) with getCurrentSong() = null and position 0 and stays
\* so until the next play().
C1_PlayThenStopLeavesNothing ==
    (lastOp = "stop" /\ AllSettled /\ mq = <<>>)
        => (getCurrentSong = NoSong /\ getCurrentTime = 0)

\* C2: playSong(A), then playSong(B) before A's load settled: once all
\* continuations and platform events are delivered and B's stream is loaded,
\* the adapter's song and the controller's song are B and the controller's
\* duration is that of B's stream; and no step after playSong(B) sets the
\* controller's duration to a value of A's stream.
C2_Final ==
    (lastOp = "play" /\ Len(calls) >= 2 /\ calls[Len(calls) - 1].song # LastSong
       /\ Quiet /\ audio.readyState = 2)
        => (getCurrentSong = LastSong /\ ctl.currentSong = LastSong
              /\ ctl.duration = Dur(LastSong))
C2_NoStaleDuration ==
    (lastOp = "play" /\ lastOp' = "play" /\ ops' = ops /\ Len(calls) >= 2
       /\ ctl'.duration # ctl.duration)
        => ctl'.duration \in {0, Dur(LastSong)}
C2_LatestSongWins == []C2_Final /\ [][C2_NoStaleDuration]_vars
C2_Witness ==
    /\ lastOp = "play" /\ Len(calls) = 2 /\ calls[1].song = "A" /\ LastSong = "B"
    /\ calls[1].st = "threw" /\ calls[1].why = "abort"
    /\ Quiet /\ audio.readyState = 2 /\ ctl.duration = Dur("B")

\* C3: the settlement of a superseded play never changes the controller's
\* isPlaying, isLoading or duration once a newer song is the current one.
C3_StaleSettlementInert ==
    [][(ThenStep /\ Head(mq).id < Len(calls) /\ calls[Head(mq).id].song # LastSong
          /\ currentSong = LastSong /\ ctl.currentSong = LastSong)
         => (ctl'.isPlaying = ctl.isPlaying /\ ctl'.isLoading = ctl.isLoading
               /\ ctl'.duration = ctl.duration)]_vars

\* C4: in every reachable state of the Cordova build, a native Media object
\* that is still starting, playing or paused is the one the adapter references
\* (this.media); every other object has been stopped and released.
C4_OneActivePrimitive ==
    \A id \in 1..Len(objs) : Active(objs[id]) => media = id

\* C5: with no current song, pause() and resume() leave the whole adapter
\* state unchanged.
C5_PauseResumeNoSongNoop ==
    [][((CallStep("pause") \/ CallStep("resume")) /\ currentSong = NoSong)
         => UNCHANGED <<currentSong, metadata, wakeLock, wlPending, wlHeld, audio>>]_vars

\* C6: whenever play(song) rejects or the platform delivers an error event,
\* the adapter is STOPPED afterwards: no current song, not playing.
C6_FailureLeavesStopped ==
    [][((ThenStep /\ ~Head(mq).ok) \/ TaskStep("error"))
         => (currentSong' = NoSong /\ audio'.paused)]_vars

\* C7: a play(song) that failed (error event during load, or the platform
\* rejecting the play request) has invoked onError exactly once.
C7_ErrorCallbackOnce ==
    (calls # <<>> /\ calls[Len(calls)].st = "threw"
       /\ calls[Len(calls)].why \in {"notallowed", "notsupported"} /\ Quiet)
        => errCalls = 1

\* the adapter is at rest after a stop() that followed some play(song): no
\* current song, the element paused, every continuation and task handled
StoppedAtRest ==
    /\ lastOp = "stop" /\ calls # <<>> /\ AllSettled /\ Quiet
    /\ getCurrentSong = NoSong /\ ~isPlaying

\* C8: after stop() and until the next play()/resume() the adapter holds no
\* screen wake lock, however the stop is ordered against the resolution of a
\* wake-lock request started by an earlier 'play' event.
C8_NoWakeLockAfterStop == (StoppedAtRest /\ wlPending = 0) => wlHeld = 0

\* C9: after the controller's stop() the PlayerState is the empty state until
\* the next playSong, whatever callbacks are delivered after the stop.
C9_EmptyAfterStop ==
    (lastOp = "stop" /\ calls # <<>> /\ getCurrentSong = NoSong /\ ~isPlaying)
        => ctl = EmptyState

\* C10: immediately after playSong(song) the controller has isLoading = true
\* and currentSong = song, the other fields unchanged.
C10_PlaySongOptimistic ==
    [][CallStep("play")
         => ctl' = [ctl EXCEPT !.isLoading = TRUE, !.currentSong = calls'[Len(calls')].song]]_vars
C10_Witness ==
    /\ lastOp = "play" /\ calls[Len(calls)].st = "url" /\ LastSong = "B"
    /\ ctl.currentSong = "B" /\ ctl.isLoading /\ ctl.isPlaying
    /\ ctl.duration = Dur("A") /\ ctl.currentTime = 1

\* C11: every play, error or rejection signal clears isLoading, a rejection
\* that is due is eventually handled, and while isLoading is true only such a
\* signal or stop() clears it (no timeout does).
LoadingSignal ==
    TaskStep("play") \/ TaskStep("error") \/ (ThenStep /\ ~Head(mq).ok)
RejectionDue ==
    ctl.isLoading /\ \E i \in 1..Len(mq) : mq[i].k = "then" /\ ~mq[i].ok
C11_SignalClears == LoadingSignal => ~ctl'.isLoading
C11_OnlySignalsClear ==
    (ctl.isLoading /\ ~ctl'.isLoading) => (LoadingSignal \/ CallStep("stop"))
C12_VolumeClamped ==
    [][\A v \in Volumes :
         setVolumeCordova(v)
           => (ActiveVolume' = Min(100, Max(0, v)) /\ getVolume' = Min(100, Max(0, v)))]_vars

\* C13: setPlaybackRate(r) sets the rate of the audio element to
\* min(2, max(0.25, r)); while a native Media object is active it changes
\* nothing of the adapter.
C13_RateClampedOrIgnored ==
    [][\A r \in Rates :
         setPlaybackRateCordova(r)
           => /\ media = 0 => playbackRate' = Min(200, Max(25, r))
              /\ media # 0 => playbackRate' = playbackRate
              /\ UNCHANGED <<currentSong, metadata, lockVars, audio, nativeVars, volume,
                             objVolume>>]_vars
\* the rate, clamped to 2 on the audio element, survived a setPlaybackRate
\* issued while a Media object was active
C13_Witness ==
    lastOp = "setPlaybackRate" /\ media # 0 /\ playbackRate = 200 /\ ops = 3

\* C14: while a song is loaded and its duration is known, the position
\* reported by getCurrentTime() never exceeds the duration reported by
\* getDuration(), whatever was passed to seek.
C14_PositionWithinDuration ==
    (currentSong # NoSong /\ media # 0 /\ mediaDuration > 0) => TimeNow <= DurationNow

\* C15: seek(t) with no current song leaves the position and every other
\* adapter field unchanged and invokes no subscriber.
C15_SeekNothingLoadedNoop ==
    [][(CallStep("seek") /\ currentSong = NoSong)
         => /\ getCurrentTime' = getCurrentTime
            /\ UNCHANGED <<currentSong, metadata, lockVars, audio, ctl>>]_vars

\* the subscriber of the latest registration for event e in a history (0: none)
RECURSIVE LatestFor(_, _)
LatestFor(h, e) ==
    IF h = <<>> THEN 0
    ELSE IF h[Len(h)].ev = e THEN h[Len(h)].sub
    ELSE LatestFor(SubSeq(h, 1, Len(h) - 1), e)

\* C16: every delivery of an event invokes the subscriber registered last for
\* that event and no other, and a registration for one event changes the
\* subscriber of no other event.
C16_LastRegistrationWins ==
    [][/\ invoked' # invoked => invoked'.sub = LatestFor(regs, invoked'.ev)
       /\ regs' # regs
            => \A e \in Events \ {regs'[Len(regs')].ev} : subs'[e] = subs[e]]_vars
\* c1 then c2 were registered for 'pause', c1 for 'play'; 'pause' invoked c2
C16_Witness ==
    /\ Len(regs) = 3
    /\ regs[1] = [ev |-> "pause", sub |-> 1] /\ regs[2] = [ev |-> "pause", sub |-> 2]
    /\ regs[3] = [ev |-> "play", sub |-> 1]
    /\ invoked = [ev |-> "pause", sub |-> 2]

\* C17: subscribers are invoked only as the delivery of a platform event:
\* pause(), resume(), seek() and the continuation of play(song) invoke none,
\* so none of these steps changes the controller's state (after play(song)
\* it stays LOADING until the platform reports).
C17_CallbacksOnlyFromPlatform ==
    [][(\/ CallStep("pause") \/ CallStep("resume") \/ CallStep("seek")
        \/ (mq # <<>> /\ Head(mq).k = "url" /\ mq' = Tail(mq)))
         => ctl' = ctl]_vars

\* C18: after a deliberate pause() and until the next resume() or play(), and
\* whenever no song is current, no auto-resume heuristic (visibility change,
\* page 'resume', window focus, unexpected-pause timeout) restarts the audio:
\* a step that is no API call and no continuation of play leaves the element
\* paused.
C18_NoAutoResumeAfterPause ==
    [][(audio.paused /\ ops' = ops /\ mq = <<>> /\ (pausedByUser \/ currentSong = NoSong))
         => audio'.paused]_vars
\* a heuristic handler ran while song A was paused by the user
C18_Witness ==
    /\ lastOp = "heuristic" /\ pausedByUser /\ currentSong = "A" /\ audio.paused
    /\ audio.readyState = 2 /\ isIntentionallyPaused


\* ------------------------------------------------------ the search screen
\* onIonInput: setSearchQuery(value)
IonInput(q) ==
    /\ searchQuery' = q
    /\ UNCHANGED <<songs, isLoading, error, searches, searched, lastHandled, inFlight,
                   shownOf>>
    /\ UNCHANGED besidesHome

\* onIonChange: handleSearch(query), as far as `await searchSongs(query)`;
\* searchSongs runs as far as its `await fetch(...)`
handleSearch(q) ==
    /\ lastHandled' = q
    /\ IF Trim(q) = <<>>
       THEN /\ songs' = <<>>
            /\ shownOf' = 0
            /\ UNCHANGED <<isLoading, error, searches, searched, inFlight>>
       ELSE /\ Len(searched) < MaxSearches
            /\ isLoading' = TRUE
            /\ error' = FALSE
            /\ searches' = Append(searches, q)
            /\ searched' = Append(searched, q)
            /\ inFlight' = Append(inFlight, Len(searched) + 1)
            /\ UNCHANGED <<songs, shownOf>>
    /\ UNCHANGED searchQuery
    /\ UNCHANGED besidesHome

\* without request i
Without(sq, i) == SubSeq(sq, 1, i - 1) \o SubSeq(sq, i + 1, Len(sq))

\* a request answers with a list of songs: setSongs(results), then finally
SearchResolved(i, results) ==
    /\ i \in 1..Len(searches)
    /\ songs' = results
    /\ isLoading' = FALSE
    /\ searches' = Without(searches, i)
    /\ inFlight' = Without(inFlight, i)
    /\ shownOf' = inFlight[i]
    /\ UNCHANGED <<searchQuery, error, searched, lastHandled>>
    /\ UNCHANGED besidesHome

\* a request fails (fetch rejects, or the response is not ok): catch, then finally
SearchFailed(i) ==
    /\ i \in 1..Len(searches)
    /\ error' = TRUE
    /\ songs' = <<>>
    /\ isLoading' = FALSE
    /\ searches' = Without(searches, i)
    /\ inFlight' = Without(inFlight, i)
    /\ shownOf' = 0
    /\ UNCHANGED <<searchQuery, searched, lastHandled>>
    /\ UNCHANGED besidesHome

NextHome ==
    \/ \E q \in Queries : IonInput(q)
    \/ \E q \in Queries : handleSearch(q)
    \/ \E i \in 1..MaxSearches, results \in ResultLists : SearchResolved(i, results)
    \/ \E i \in 1..MaxSearches : SearchFailed(i)

SpecHome == Init /\ [][NextHome]_vars

\* a query that is empty or holds whitespace only
Blank(q) == \A i \in 1..Len(q) : q[i] \in Whitespace

\* C20: the search screen never calls searchSongs with an empty or
\* whitespace-only query: for such a query handleSearch issues no network call
\* and sets the result list to empty.
C20_NoBlankSearch ==
    [][/\ \A i \in 1..Len(searched') : ~Blank(searched'[i])
       /\ \A i \in 1..Len(searches') : ~Blank(searches'[i])
       /\ \A q \in Queries :
            (Blank(q) /\ handleSearch(q)) =>
                /\ songs' = <<>>
                /\ searches' = searches /\ searched' = searched
      ]_vars

\* after a search for "a", handleSearch of a blank and a tab emptied the list
\* without a second request
C20_Witness ==
    /\ lastHandled = <<" ", "\t">>
    /\ searched = << <<"a">> >>
    /\ searches = <<>>
    /\ songs = <<>> /\ ~isLoading /\ ~error

\* the fields of PlayerState
StateFields == {"currentSong", "isPlaying", "currentTime", "duration", "isLoading"}
\* states c and d agree on every field outside own
SameBut(c, d, own) == \A f \in StateFields \ own : c[f] = d[f]

\* C19: each adapter callback handled by the controller changes only its own
\* fields of PlayerState: play only isPlaying and isLoading, pause only
\* isPlaying, time-update only currentTime and duration, loaded only duration,
\* ended only isPlaying and currentTime, error only isPlaying and isLoading;
\* and no step in which the element delivers an event changes currentSong.
C19_CallbackFrames ==
    [][/\ SameBut(ctl, ctlOnPlay(ctl), {"isPlaying", "isLoading"})
       /\ SameBut(ctl, ctlOnPause(ctl), {"isPlaying"})
       /\ SameBut(ctl, ctlOnTimeUpdate(ctl, TimeNow, DurationNow), {"currentTime", "duration"})
       /\ SameBut(ctl, ctlOnLoaded(ctl, DurationNow), {"duration"})
       /\ SameBut(ctl, ctlOnEnded(ctl), {"isPlaying", "currentTime"})
       /\ SameBut(ctl, ctlOnError(ctl), {"isPlaying", "isLoading"})
       /\ TaskStep("play") => SameBut(ctl, ctl', {"isPlaying", "isLoading"})
       /\ TaskStep("pause") => SameBut(ctl, ctl', {"isPlaying"})
       /\ TaskStep("timeupdate") => SameBut(ctl, ctl', {"currentTime", "duration"})
       /\ TaskStep("loadedmetadata") => SameBut(ctl, ctl', {"duration"})
       /\ TaskStep("error") => SameBut(ctl, ctl', {"isPlaying", "isLoading"})
       /\ TaskStep("ended") => ctl'.currentSong = ctl.currentSong /\ ctl'.isLoading = ctl.isLoading
      ]_vars

\* 'ended' was delivered for song A: the song and the duration are kept
C19_Witness ==
    /\ ops = 1 /\ lastOp = "play"
    /\ ctl.currentSong = "A" /\ ctl.duration = Dur("A") /\ ctl.currentTime = 0
    /\ ~ctl.isPlaying /\ ~ctl.isLoading
    /\ audio.currentTime = Dur("A") /\ AudioEnded(audio) /\ audio.tasks = <<>> /\ mq = <<>>


\* C21: a search whose HTTP call rejects or returns a non-success status ends
\* with the error message set, an empty result list and isLoading = false; a
\* search that succeeds ends with the returned list, no error and
\* isLoading = false.
C21_SearchOutcome ==
    [][/\ \A i \in 1..MaxSearches :
            SearchFailed(i) => (error' /\ songs' = <<>> /\ ~isLoading')
       /\ \A i \in 1..MaxSearches, results \in ResultLists :
            SearchResolved(i, results) => (songs' = results /\ ~error' /\ ~isLoading')
      ]_vars


\* the latest play call has failed and no API call was made since
PlaybackFailed ==
    lastOp = "play" /\ calls # <<>> /\ calls[Len(calls)].st = "threw"

\* C22: after a search failure or a playback failure nothing is retried until
\* a new explicit user action: the failure of a search sends no request, only
\* a call of handleSearch does, and a handler of window focus, page resume, visibility or of their
\* timeouts that runs after a failed play makes no play attempt on the element.
C22_NoAutomaticRetry ==
    [][/\ \A i \in 1..MaxSearches : SearchFailed(i) => searched' = searched
       /\ (searched' # searched) => \E q \in Queries : handleSearch(q)
       /\ (PlaybackFailed /\ lastOp' = "heuristic") => audio' = audio
      ]_vars

\* ------------------------------------------------------------ checkHealth
MaxProbes == 4     \* calls of checkHealth per behaviour
\* how the health request ends: a success status, another status, or the
\* rejection of fetch
Outcomes == {"ok", "notok", "rejected"}

checkHealthPropagate(o) ==
    IF o = "rejected" THEN [st |-> "rejected", value |-> FALSE]
    ELSE [st |-> "resolved", value |-> o = "ok"]
\* how checkHealth settles: `return response.ok`, or `return false` in catch
checkHealthSettle(o) ==
    IF o = "rejected" THEN [st |-> "resolved", value |-> FALSE]
    ELSE [st |-> "resolved", value |-> o = "ok"]

\* checkHealth() as far as `await fetch(...)`
checkHealth ==
    /\ Len(probes) < MaxProbes
    /\ probes' = Append(probes, [outcome |-> "none", st |-> "pending", value |-> FALSE])
    /\ UNCHANGED besidesHealth

\* the health request of call i ends with outcome o and checkHealth settles
HealthSettled(i, o) ==
    /\ i \in 1..Len(probes)
    /\ probes[i].st = "pending"
    /\ probes' = [probes EXCEPT ![i] = [outcome |-> o,
                                        st |-> checkHealthSettle(o).st,
                                        value |-> checkHealthSettle(o).value]]
    /\ UNCHANGED besidesHealth

NextHealth ==
    \/ checkHealth
    \/ \E i \in 1..MaxProbes, o \in Outcomes : HealthSettled(i, o)

SpecHealth == Init /\ [][NextHealth]_vars

\* C23: checkHealth() never rejects: it resolves to true exactly when the
\* health request completes with a success status, and to false when the
\* request rejects or returns a non-success status.
C23_HealthNeverRejects ==
    \A i \in 1..Len(probes) :
        /\ probes[i].st # "rejected"
        /\ probes[i].st = "resolved" =>
             /\ probes[i].value = (probes[i].outcome = "ok")
             /\ probes[i].outcome \in {"rejected", "notok"} => probes[i].value = FALSE

\* three probes have settled, one for each way the request can end
C23_Witness ==
    /\ Len(probes) = 3
    /\ probes[1] = [outcome |-> "ok", st |-> "resolved", value |-> TRUE]
    /\ probes[2] = [outcome |-> "rejected", st |-> "resolved", value |-> FALSE]
    /\ probes[3] = [outcome |-> "notok", st |-> "resolved", value |-> FALSE]

\* the backend play call i used, once its await of getStreamUrl has continued
Backend(i) ==
    IF calls[i].st = "url" THEN "undecided"
    ELSE IF objs[i] # NoObj THEN "native" ELSE "web"

\* C24: the playback backend is decided once when the adapter is constructed:
\* every play() call on the adapter uses the same backend, even if the
\* availability of the native plugin changes between calls.
C24_OneBackend ==
    \A i, j \in 1..Len(calls) :
        (Backend(i) # "undecided" /\ Backend(j) # "undecided") => Backend(i) = Backend(j)

\* ------------------------------------------------------ the player screen
HandlePlayAlways(c, s) == TRUE
\* the condition of the auto-play effect
ShouldAutoPlay(c, s) == c.currentSong = NoSong \/ c.currentSong # s

\* the player screen is opened for song s: the auto-play effect runs in a
\* task of its own and calls handlePlay(), that is playSong(song), or nothing
OpenPlayer(s) ==
    /\ mq = <<>>
    /\ IF ShouldAutoPlay(ctl, s)
       THEN /\ playSongCall(s)
            /\ opened' = [song |-> s, started |-> TRUE]
       ELSE /\ opened' = [song |-> s, started |-> FALSE]
            /\ sync' = FALSE
            /\ UNCHANGED <<currentSong, metadata, lockVars, audio, mq, calls, ctl, ops,
                           lastOp, errCalls, nativeVars>>
    /\ UNCHANGED besidesPlayer

\* the web build with the player screen
NextPlayer ==
    \/ Next
    \/ \E s \in Songs : OpenPlayer(s)

SpecPlayer == Init /\ [][NextPlayer]_vars

\* C25: opening the player screen for a song starts playSong(song) exactly
\* when no song is current or the current song differs from it; opening it
\* for the song that is already current never restarts playback.
C25_AutoPlayOnlyNewSong ==
    [][\A s \in Songs :
         (opened' # opened /\ opened'.song = s) =>
            /\ opened'.started = (ctl.currentSong = NoSong \/ ctl.currentSong # s)
            /\ opened'.started => (Len(calls') = Len(calls) + 1 /\ calls'[Len(calls')].song = s
                                   /\ ctl'.currentSong = s /\ ctl'.isLoading)
            /\ ~opened'.started => (calls' = calls /\ audio' = audio /\ ctl' = ctl)
      ]_vars

\* song A is playing and the player screen was opened for it again: nothing
\* was started
C25_Witness ==
    /\ opened = [song |-> "A", started |-> FALSE]
    /\ ctl.currentSong = "A" /\ ctl.isPlaying /\ ~audio.paused
    /\ Len(calls) = 1

\* ------------------------------------------------------ the debug console
KeepLast == 20     \* prev.slice(-20)
MaxLogs == 23      \* console calls per behaviour
MaxToggles == 3    \* times the console is shown or hidden per behaviour

\* Array.prototype.slice(-n): the last n elements
SliceLast(sq, n) == IF Len(sq) <= n THEN sq ELSE SubSeq(sq, Len(sq) - n + 1, Len(sq))

\* onToggle: the console is shown or hidden; the effect patches or restores
\* console.log, console.error and console.warn
Toggle ==
    /\ toggles < MaxToggles
    /\ toggles' = toggles + 1
    /\ show' = ~show
    /\ UNCHANGED <<logs, logCalls>>
    /\ UNCHANGED besidesConsole

\* console.log, console.error or console.warn is called: while the console
\* is shown, addLog appends the line to the last 20 lines of the buffer
ConsoleCall ==
    /\ logCalls < MaxLogs
    /\ logCalls' = logCalls + 1
    /\ logs' = IF show THEN Append(SliceLast(logs, KeepLast), logCalls + 1) ELSE logs
    /\ UNCHANGED <<show, toggles>>
    /\ UNCHANGED besidesConsole

NextConsole ==
    \/ Toggle
    \/ ConsoleCall

SpecConsole == Init /\ [][NextConsole]_vars

\* C26: the debug console keeps only the last 20 log lines: after any
\* sequence of console calls while shown, the buffer holds at most 20 entries,
\* the most recent ones in order.
C26_KeepsLast20 ==
    [][/\ Len(logs') <= 20
       /\ (show /\ logCalls' # logCalls) =>
            \E k \in 0..Len(logs) :
                logs' = Append(SubSeq(logs, k + 1, Len(logs)), logCalls')
      ]_vars

\* C27: once all requests have completed, the result list shown corresponds
\* to the most recently submitted query: it is empty when that query was
\* blank, and otherwise it was not set by the answer to an older request.
C27_LatestQueryWins ==
    searches = <<>> =>
        /\ Blank(lastHandled) => songs = <<>>
        /\ (~Blank(lastHandled) /\ shownOf # 0) => shownOf = Len(searched)

\* C28: in every reachable controller state isPlaying = true implies that
\* currentSong is not null.
C28_PlayingHasSong == ctl.isPlaying => ctl.currentSong # NoSong

\* C29: in every reachable adapter state the now-playing metadata is either
\* cleared or describes the adapter's current song: it is never set while
\* currentSong is null and never describes another song.
C29_MetadataOfCurrentSong == metadata = NoSong \/ metadata = currentSong

\* song B was played after song A and the metadata describes B
C29_Witness ==
    /\ Len(calls) = 2 /\ calls[1].song = "A" /\ calls[1].st = "done"
    /\ currentSong = "B" /\ metadata = "B"

\* ------------------------------------------- media-session seek by offset
SeekOffset == 10   \* seconds of the 'seekbackward' and 'seekforward' actions

\* 'seekforward' action: seek(Math.min(getDuration(), getCurrentTime() + 10))
seekForward ==
    /\ Called("seekforward")
    /\ audio' = AudioSetCurrentTime(audio, Min(getDuration, getCurrentTime + SeekOffset))
    /\ UNCHANGED <<currentSong, metadata, lockVars, mq, calls, ctl, errCalls>>
    /\ Returned
    /\ UNCHANGED nonWebVars
    /\ UNCHANGED outsideVars

\* 'seekbackward' action: seek(Math.max(0, getCurrentTime() - 10))
seekBackward ==
    /\ Called("seekbackward")
    /\ audio' = AudioSetCurrentTime(audio, Max(0, getCurrentTime - SeekOffset))
    /\ UNCHANGED <<currentSong, metadata, lockVars, mq, calls, ctl, errCalls>>
    /\ Returned
    /\ UNCHANGED nonWebVars
    /\ UNCHANGED outsideVars

\* the test of the 'seekto' handler on details.seekTime: `if (details.seekTime)`
\* in the web and the Capacitor build, `typeof details?.seekTime === 'number'`
\* in the Cordova build
SeekToTaken(t) == t # 0
SeekToTakenCordova(t) == TRUE

\* 'seekto' action with seekTime = t: seek(t) if the test passes
seekTo(t) ==
    /\ Called("seekto")
    /\ audio' = IF SeekToTaken(t) THEN AudioSetCurrentTime(audio, t) ELSE audio
    /\ UNCHANGED <<currentSong, metadata, lockVars, mq, calls, ctl, errCalls>>
    /\ Returned
    /\ UNCHANGED nonWebVars
    /\ UNCHANGED outsideVars

\* the web build with the media-session seek actions
NextMediaSession ==
    \/ Next
    \/ seekForward
    \/ seekBackward
    \/ \E t \in SeekTimes : seekTo(t)

SpecMediaSession == Init /\ [][NextMediaSession]_vars

\* C30: the media-session seek-by-offset actions are monotone: 'seekforward'
\* never moves the position to a lower value, also while the duration is
\* still unknown and reported as 0, and 'seekbackward' never moves it higher
\* or below 0.
C30_SeekByOffsetMonotone ==
    [][/\ CallStep("seekforward") => getCurrentTime' >= getCurrentTime
       /\ CallStep("seekbackward") => (getCurrentTime' <= getCurrentTime /\ getCurrentTime' >= 0)
      ]_vars

\* C31: a media-session 'seekto' action carrying seekTime = t seeks the
\* adapter to t for every t >= 0, including t = 0, and the adapter variants
\* agree on this.
C31_SeekToEveryTime ==
    [][\A t \in SeekTimes :
         /\ seekTo(t) => audio' = AudioSetCurrentTime(audio, t)
         /\ SeekToTaken(t) = SeekToTakenCordova(t)
      ]_vars

\* C32: the intentional-pause flag is true only while the current song is
\* paused by a deliberate pause(): it is false when no song is current (after
\* stop(), or a pause() with no song) and after play(song) was called since
\* the last pause().
C32_FlagOnlyWhilePaused ==
    isIntentionallyPaused => (pausedByUser /\ currentSong # NoSong)

====
